---- MODULE Spec2Model ----
(***************************************************************************)
(* Model of the workshop notebooks.                                        *)
(*                                                                         *)
(*  - the chest X-ray notebook (src/unnamed/part_000): the label table,    *)
(*    load_batch, train_generator and val_generator (specification Spec),  *)
(*    and the cell that runs model.fit_generator (specification SpecFit);  *)
(*  - the MNIST notebook (src/DL_Deep_Dive-Training-keras_mnist_MLP.ipynb):*)
(*    the Sequential model and model.fit / model.evaluate (SpecMnist).     *)
(*                                                                         *)
(* Filenames are small integers.  A label vector is abstracted to a small  *)
(* integer.  LEARNING_RATE is counted in units of 1/10000.                 *)
(***************************************************************************)
EXTENDS Integers, Sequences, FiniteSets, TLC

\* ------------------------------------------------------------ bounds
MaxTrain == 3        \* most keys of training_labels
MaxVal == 1          \* most keys of validation_labels
MaxSteps == 3        \* largest num_of_steps handed to a generator
SmallBatch == 2      \* the small BATCH_SIZE tried beside the notebook's 16
MaxEpochs == 2       \* largest NUM_EPOCHS tried

\* ------------------------------------------------- notebook constants
IMAGE_SIZE == 256
NotebookBatchSize == 16
NotebookLearningRate == 10      \* 0.001 in units of 1/10000
NotebookNumEpochs == 1

BatchSizes == {SmallBatch, NotebookBatchSize}
LearningRates == {NotebookLearningRate, 100}
EXPERIMENT_OUTPUT_PATH == "HOME/notebooks/output/experiment"

VARIABLES
  \* hyperparameter cell
  BATCH_SIZE, LEARNING_RATE, NUM_EPOCHS,
  \* the pickled dictionaries, the merged table and the image directory
  training_labels, validation_labels, labels, disk,
  \* train_generator(num_of_steps)
  training_files, train_steps, train_pc, train_i, train_yield, train_error,
  \* the files of the batches train_generator has yielded since its last shuffle
  train_pass,
  \* val_generator(num_of_steps)
  validation_files, val_steps, val_pc, val_i, val_yield, val_error,
  \* the fit_generator cell
  weights_file, callbacks, fit_pc, fit_epoch, fit_step, checkpoints,
  \* the MNIST notebook
  mnist_pc, layers, total_params, epoch, batch_start, batch_end,
  updates_in_epoch, update_source, presented, evaluations, eval_source

hyperVars == <<BATCH_SIZE, LEARNING_RATE, NUM_EPOCHS>>
tableVars == <<training_labels, validation_labels, labels, disk>>
trainVars == <<training_files, train_steps, train_pc, train_i, train_yield, train_error,
               train_pass>>
valVars == <<validation_files, val_steps, val_pc, val_i, val_yield, val_error>>
fitVars == <<weights_file, callbacks, fit_pc, fit_epoch, fit_step, checkpoints>>
mnistVars == <<mnist_pc, layers, total_params, epoch, batch_start, batch_end,
               updates_in_epoch, update_source, presented, evaluations, eval_source>>
vars == <<hyperVars, tableVars, trainVars, valVars, fitVars, mnistVars>>

\* ------------------------------------------------------------ helpers
Min(a, b) == IF a < b THEN a ELSE b
Range(s) == {s[k] : k \in 1..Len(s)}

\* np.asarray(list(d.keys())): the keys of a dictionary in insertion order
\* (ascending filename here).
RECURSIVE KeyList(_)
KeyList(S) ==
  IF S = {} THEN << >>
  ELSE LET m == CHOOSE x \in S : \A y \in S : x <= y
       IN <<m>> \o KeyList(S \ {m})

\* np.random.shuffle(a): every ordering of the same elements.
Shuffles(a) ==
  {p \in [1..Len(a) -> Range(a)] : \A j, k \in 1..Len(a) : j # k => p[j] # p[k]}

\* a[lo:hi] of Python: 0-based, hi exclusive, both ends clamped to the array.
PySlice(a, lo, hi) == SubSeq(a, Min(lo, Len(a)) + 1, Min(hi, Len(a)))

\* ------------------------------------------------------ the label table
\* dict(list(training_labels.items()) + list(validation_labels.items())):
\* a key of both dictionaries keeps the validation entry.
MergeLabels_validation_only(t, v) == v

MergeLabels(t, v) ==
  [f \in (DOMAIN t) \cup (DOMAIN v) |-> IF f \in DOMAIN v THEN v[f] ELSE t[f]]

\* ------------------------------------------------------------ images
\* What pil.open finds: x-ray files are single-channel or RGBA, 1024 wide.
RawImage(filename) ==
  [file |-> filename, channels |-> IF filename % 2 = 1 THEN 1 ELSE 4,
   width |-> 1024, height |-> 1024, mirrored |-> FALSE, preprocessed |-> FALSE]

Convert_RGB(img) == [img EXCEPT !.channels = 3]
Resize(img) == [img EXCEPT !.width = IMAGE_SIZE, !.height = IMAGE_SIZE]
Mirror(img) == [img EXCEPT !.mirrored = ~img.mirrored]

\* ---------------------------------------------------------- load_batch
NoBatch == [status |-> "none"]

\* One pass of the loop body for one file: open, convert, resize, and mirror
\* when  is_training and np.random.randint(2)  (coin is the drawn 0 or 1).
LoadImage(filename, is_training, coin) ==
  LET img == Resize(Convert_RGB(RawImage(filename)))
  IN IF is_training /\ coin = 1 THEN Mirror(img) ELSE img

\* The positions of batch_of_files at which the loop body raises: pil.open
\* raises for a file that is not in IMAGES_PATH, labels[filename] for a
\* filename that is no key of labels.
Failing(batch_of_files) ==
  {k \in 1..Len(batch_of_files) :
     batch_of_files[k] \notin disk \/ batch_of_files[k] \notin DOMAIN labels}

\* keras.applications.resnet50.preprocess_input(np.float32(np.asarray(..))):
\* element-wise on the stacked array, the order and shape of the images kept.
Preprocess(images) ==
  [k \in 1..Len(images) |-> [images[k] EXCEPT !.preprocessed = TRUE]]

load_batch_labels_reversed(batch_of_files, is_training, coins) ==
  LET n == Len(batch_of_files)
  IN IF Failing(batch_of_files) # {}
     THEN [status |-> "FileNotFoundError", file |-> 0]
     ELSE [status |-> "ok",
           batch_images |-> Preprocess([k \in 1..n |->
                              LoadImage(batch_of_files[k], is_training, coins[k])]),
           batch_labels |-> [k \in 1..n |-> labels[batch_of_files[n + 1 - k]]]]

load_batch_skipping(batch_of_files, is_training, coins) ==
  LET good == SelectSeq(batch_of_files,
                        LAMBDA f : f \in disk /\ f \in DOMAIN labels)
  IN [status |-> "ok",
      batch_images |-> Preprocess([k \in 1..Len(good) |->
                         LoadImage(good[k], is_training, 0)]),
      batch_labels |-> [k \in 1..Len(good) |-> labels[good[k]]]]

\* load_batch(batch_of_files, is_training): the two lists it returns, or the
\* exception of the first file whose loop body raises.
load_batch(batch_of_files, is_training, coins) ==
  LET n == Len(batch_of_files)
      bad == Failing(batch_of_files)
  IN IF bad # {}
     THEN LET k == CHOOSE j \in bad : \A m \in bad : j <= m
          IN [status |-> IF batch_of_files[k] \notin disk
                         THEN "FileNotFoundError" ELSE "KeyError",
              file |-> batch_of_files[k]]
     ELSE [status |-> "ok",
           batch_images |-> Preprocess([k \in 1..n |->
                              LoadImage(batch_of_files[k], is_training, coins[k])]),
           batch_labels |-> [k \in 1..n |-> labels[batch_of_files[k]]]]

\* ------------------------------------------------------- the generators
\* files[i*BATCH_SIZE : i*BATCH_SIZE + BATCH_SIZE]
BatchOfFiles_short(files, i) ==
  PySlice(files, i * BATCH_SIZE, i * BATCH_SIZE + BATCH_SIZE - 1)

BatchOfFiles_overlapping(files, i) ==
  PySlice(files, i, i + BATCH_SIZE)

BatchOfFiles(files, i) ==
  PySlice(files, i * BATCH_SIZE, i * BATCH_SIZE + BATCH_SIZE)

\* A generator is "new" (not started), "shuffled" (just past
\* np.random.shuffle), "yielded" (suspended at its yield, in step i) or
\* "raised" (ended by an exception).  next() runs it from "new" or "yielded"
\* to the next "yielded" or to "raised"; the batch handed out by the last
\* yield is gone once the generator is resumed.

\* The while loop comes round to np.random.shuffle: at the start, when the
\* for loop has run its num_of_steps steps, and straight again when
\* range(num_of_steps) is empty.
AtShuffle(pc, i, num_of_steps) ==
  \/ pc = "new"
  \/ pc = "yielded" /\ i + 1 >= num_of_steps
  \/ pc = "shuffled" /\ num_of_steps <= 0

\* The for loop has a next step: the first one after the shuffle, or i + 1.
AtBatch(pc, i, num_of_steps) ==
  \/ pc = "shuffled" /\ num_of_steps >= 1
  \/ pc = "yielded" /\ i + 1 < num_of_steps

NextI(pc, i) == IF pc = "shuffled" THEN 0 ELSE i + 1

\* The body of the for loop: slice, load_batch, yield.  coins are the
\* outcomes of np.random.randint(2), one per file of the batch.
LoopBody(files, i, coins) ==
  LET r == load_batch(BatchOfFiles(files, i), TRUE, coins)
  IN [i |-> i,
      pc |-> IF r.status = "ok" THEN "yielded" ELSE "raised",
      yield |-> IF r.status = "ok" THEN r ELSE NoBatch,
      error |-> IF r.status = "ok" THEN NoBatch ELSE r]

Coins(batch_of_files) == [1..Len(batch_of_files) -> {0, 1}]

\* The files whose images a yielded batch holds, in the batch's order.
YieldedFiles(yield) ==
  [k \in 1..Len(yield.batch_images) |-> yield.batch_images[k].file]

TrainShuffle ==
  /\ AtShuffle(train_pc, train_i, train_steps)
  /\ training_files' \in Shuffles(training_files)
  /\ train_pc' = "shuffled"
  /\ train_yield' = NoBatch
  /\ train_pass' = << >>
  /\ UNCHANGED <<train_steps, train_i, train_error>>

TrainBatch ==
  /\ AtBatch(train_pc, train_i, train_steps)
  /\ \E coins \in Coins(BatchOfFiles(training_files, NextI(train_pc, train_i))) :
       LET g == LoopBody(training_files, NextI(train_pc, train_i), coins)
       IN /\ train_i' = g.i
          /\ train_pc' = g.pc
          /\ train_yield' = g.yield
          /\ train_error' = g.error
          /\ train_pass' = IF g.pc = "yielded"
                           THEN Append(train_pass, YieldedFiles(g.yield))
                           ELSE train_pass
  /\ UNCHANGED <<training_files, train_steps>>

ValShuffle ==
  /\ AtShuffle(val_pc, val_i, val_steps)
  /\ validation_files' \in Shuffles(validation_files)
  /\ val_pc' = "shuffled"
  /\ val_yield' = NoBatch
  /\ UNCHANGED <<val_steps, val_i, val_error>>

ValBatch ==
  /\ AtBatch(val_pc, val_i, val_steps)
  /\ \E coins \in Coins(BatchOfFiles(validation_files, NextI(val_pc, val_i))) :
       LET g == LoopBody(validation_files, NextI(val_pc, val_i), coins)
       IN /\ val_i' = g.i
          /\ val_pc' = g.pc
          /\ val_yield' = g.yield
          /\ val_error' = g.error
  /\ UNCHANGED <<validation_files, val_steps>>

\* The generators run by whoever calls next() on them (the fit loop's batch
\* queue threads), in any interleaving.
train_generator_shuffle ==
  /\ TrainShuffle
  /\ UNCHANGED <<hyperVars, tableVars, valVars, fitVars, mnistVars>>

train_generator_batch_dropping_labels ==
  /\ TrainBatch
  /\ labels' = [f \in (DOMAIN labels) \ Range(BatchOfFiles(training_files, train_i'))
                  |-> labels[f]]
  /\ UNCHANGED <<hyperVars, training_labels, validation_labels, disk,
                 valVars, fitVars, mnistVars>>

train_generator_batch ==
  /\ TrainBatch
  /\ UNCHANGED <<hyperVars, tableVars, valVars, fitVars, mnistVars>>

val_generator_shuffle ==
  /\ ValShuffle
  /\ UNCHANGED <<hyperVars, tableVars, trainVars, fitVars, mnistVars>>

val_generator_batch ==
  /\ ValBatch
  /\ UNCHANGED <<hyperVars, tableVars, trainVars, fitVars, mnistVars>>

\* ------------------------------------------------------- initial states
\* The label vector of a file in the training and in the validation pickle.
TrainingLabel(f) == f % 2
ValidationLabel(f) == 2 + (f % 2)

\* The pickles tried: training keys 1..n; validation keys 1 (a key of both
\* dictionaries once training_labels has a key) and then MaxTrain+1 onwards.
TrainingPickles == {[f \in 1..n |-> TrainingLabel(f)] : n \in 0..MaxTrain}
ValidationKeys(n) == IF n = 0 THEN {} ELSE {1} \cup ((MaxTrain + 1)..(MaxTrain + n - 1))
ValidationPickles ==
  {[f \in ValidationKeys(n) |-> ValidationLabel(f)] : n \in 0..MaxVal}
AllFiles == 1..(MaxTrain + MaxVal)
\* IMAGES_PATH holds every file, or every file but file 1.
Disks == {AllFiles, AllFiles \ {1}}

InitHyper(batch_sizes, learning_rates, epochs) ==
  /\ BATCH_SIZE \in batch_sizes
  /\ LEARNING_RATE \in learning_rates
  /\ NUM_EPOCHS \in epochs

\* The cell that loads the pickles and builds training_files,
\* validation_files and labels.
InitTables(tps, vps, disks) ==
  /\ training_labels \in tps
  /\ validation_labels \in vps
  /\ disk \in disks
  /\ labels = MergeLabels(training_labels, validation_labels)
  /\ training_files = KeyList(DOMAIN training_labels)
  /\ validation_files = KeyList(DOMAIN validation_labels)

InitGenerators(steps) ==
  /\ train_steps \in steps
  /\ val_steps \in steps
  /\ train_pc = "new" /\ train_i = 0 /\ train_yield = NoBatch /\ train_error = NoBatch
  /\ train_pass = << >>
  /\ val_pc = "new" /\ val_i = 0 /\ val_yield = NoBatch /\ val_error = NoBatch

InitFitCell ==
  /\ weights_file = NoBatch
  /\ callbacks = << >>
  /\ fit_pc = "idle"
  /\ fit_epoch = 0
  /\ fit_step = 0
  /\ checkpoints = {}

InitMnistIdle ==
  /\ mnist_pc = "idle"
  /\ layers = << >>
  /\ total_params = 0
  /\ epoch = 0
  /\ batch_start = 0
  /\ batch_end = 0
  /\ updates_in_epoch = 0
  /\ update_source = "none"
  /\ presented = 0
  /\ evaluations = 0
  /\ eval_source = "none"

\* --------------------------------------- Spec: the two generators alone
Init ==
  /\ InitHyper(BatchSizes, {NotebookLearningRate}, {NotebookNumEpochs})
  /\ InitTables(TrainingPickles, ValidationPickles, Disks)
  /\ InitGenerators(0..MaxSteps)
  /\ InitFitCell
  /\ InitMnistIdle

Next ==
  \/ train_generator_shuffle
  \/ train_generator_batch
  \/ val_generator_shuffle
  \/ val_generator_batch

Spec == Init /\ [][Next]_vars

\* ------------------------------------------- SpecFit: the training cell
\* '{:.3f}'.format(x): x rounded to thousandths; x comes in units of 1/10000
\* and the text is stood for by its count of thousandths ("0.001" is 1).
Format3f(x) == (x + 5) \div 10
\* '{:d}'.format(n)
FormatD(n) == n

\* EXPERIMENT_OUTPUT_PATH + '/lr_{:.3f}_bz_{:d}'.format(0.001, 16)
\*   + '_loss_{val_loss:.3f}_epoch_{epoch:02d}.h5'
WeightsFileTemplate ==
  [status |-> "template", dir |-> EXPERIMENT_OUTPUT_PATH,
   lr |-> Format3f(10), bz |-> FormatD(16)]

\* The path a ModelCheckpoint callback would write after an epoch.
CheckpointPath(template, e) == [template EXCEPT !.status = "file"] @@ [epoch |-> e]

\* on_epoch_end of the callbacks handed to fit_generator: only a
\* ModelCheckpoint writes a file.
CallbackWrites(cbs, e) ==
  {CheckpointPath(cbs[k].filepath, e) :
     k \in {j \in 1..Len(cbs) : cbs[j].kind = "ModelCheckpoint"}}

\* The cell starts: weights_file is assigned and fit_generator is called with
\* callbacks=[ ], steps_per_epoch = the train generator's num_of_steps and
\* validation_steps = the validation generator's.
fit_generator_begin ==
  /\ fit_pc = "idle"
  /\ weights_file' = WeightsFileTemplate
  /\ callbacks' = << >>
  /\ fit_pc' = "training"
  /\ fit_epoch' = 0
  /\ fit_step' = 0
  /\ UNCHANGED <<checkpoints, hyperVars, tableVars, trainVars, valVars, mnistVars>>

\* next(train generator) inside the fit loop, up to its shuffle.
fit_train_shuffle ==
  /\ fit_pc = "training"
  /\ TrainShuffle
  /\ UNCHANGED <<fitVars, hyperVars, tableVars, valVars, mnistVars>>

\* The rest of next(train generator) and train_on_batch on what it yields;
\* an exception of the generator ends fit_generator.
fit_train_step ==
  /\ fit_pc = "training"
  /\ TrainBatch
  /\ fit_pc' = IF train_pc' = "raised" THEN "failed"
               ELSE IF fit_step + 1 >= train_steps THEN "validating" ELSE "training"
  /\ fit_step' = IF train_pc' = "raised" THEN fit_step
                 ELSE IF fit_step + 1 >= train_steps THEN 0 ELSE fit_step + 1
  /\ UNCHANGED <<weights_file, callbacks, fit_epoch, checkpoints,
                 hyperVars, tableVars, valVars, mnistVars>>

fit_val_shuffle ==
  /\ fit_pc = "validating"
  /\ ValShuffle
  /\ UNCHANGED <<fitVars, hyperVars, tableVars, trainVars, mnistVars>>

\* Validation at the end of the epoch: validation_steps batches are evaluated.
fit_val_step ==
  /\ fit_pc = "validating"
  /\ ValBatch
  /\ fit_pc' = IF val_pc' = "raised" THEN "failed"
               ELSE IF fit_step + 1 >= val_steps THEN "epoch_end" ELSE "validating"
  /\ fit_step' = IF val_pc' = "raised" THEN fit_step
                 ELSE IF fit_step + 1 >= val_steps THEN 0 ELSE fit_step + 1
  /\ UNCHANGED <<weights_file, callbacks, fit_epoch, checkpoints,
                 hyperVars, tableVars, trainVars, mnistVars>>

\* on_epoch_end of every callback, then the next epoch or the end of the run.
fit_epoch_end ==
  /\ fit_pc = "epoch_end"
  /\ checkpoints' = checkpoints \cup CallbackWrites(callbacks, fit_epoch + 1)
  /\ fit_epoch' = fit_epoch + 1
  /\ fit_pc' = IF fit_epoch + 1 >= NUM_EPOCHS THEN "done" ELSE "training"
  /\ UNCHANGED <<weights_file, callbacks, fit_step,
                 hyperVars, tableVars, trainVars, valVars, mnistVars>>

InitFit ==
  /\ InitHyper(BatchSizes, LearningRates, 1..MaxEpochs)
  /\ InitTables(TrainingPickles, ValidationPickles, Disks)
  /\ InitGenerators(1..MaxSteps)
  /\ InitFitCell
  /\ InitMnistIdle

NextFit ==
  \/ fit_generator_begin
  \/ fit_train_shuffle
  \/ fit_train_step
  \/ fit_val_shuffle
  \/ fit_val_step
  \/ fit_epoch_end

SpecFit == InitFit /\ [][NextFit]_vars

\* --------------------------------------- SpecMnist: the MNIST notebook
num_classes == 10
batch_size == 128
epochs == 20

\* x_train.reshape(60000, 784), x_test.reshape(10000, 784)
Samples(array) == IF array = "x_train" THEN 60000 ELSE 10000

\* The layers the notebook adds, each with the width of its input.
DenseLayer(inputs, units) == [kind |-> "Dense", inputs |-> inputs, units |-> units]
DropoutLayer(units) == [kind |-> "Dropout", inputs |-> units, units |-> units]

NotebookLayers ==
  << DenseLayer(784, 512), DropoutLayer(512), DenseLayer(512, 512),
     DropoutLayer(512), DenseLayer(512, num_classes) >>

\* Parameters of one layer as model.summary() counts them: a Dense layer has
\* a weight per input and neuron and a bias per neuron, a Dropout layer none.
ParamCount_no_bias(layer) ==
  IF layer.kind = "Dense" THEN layer.inputs * layer.units ELSE 0

ParamCount(layer) ==
  IF layer.kind = "Dense" THEN layer.inputs * layer.units + layer.units ELSE 0

RECURSIVE SumParams(_)
SumParams(ls) ==
  IF ls = << >> THEN 0 ELSE ParamCount(Head(ls)) + SumParams(Tail(ls))

\* What the notebook hands to model.fit: the arrays trained on and the
\* validation_data.
FitArguments_test_as_training ==
  [x |-> "x_test", batch_size |-> batch_size, epochs |-> epochs,
   validation_data |-> "x_test"]

FitArguments_default_epochs ==
  [x |-> "x_train", batch_size |-> batch_size, epochs |-> 1,
   validation_data |-> "x_test"]

FitArguments ==
  [x |-> "x_train", batch_size |-> batch_size, epochs |-> epochs,
   validation_data |-> "x_test"]

\* model.add(...), one layer at a time.
model_add ==
  /\ mnist_pc = "building"
  /\ Len(layers) < Len(NotebookLayers)
  /\ layers' = Append(layers, NotebookLayers[Len(layers) + 1])
  /\ UNCHANGED <<mnist_pc, total_params, epoch, batch_start, batch_end,
                 updates_in_epoch, update_source, presented, evaluations, eval_source>>
  /\ UNCHANGED <<hyperVars, tableVars, trainVars, valVars, fitVars>>

\* model.summary() and model.compile(...)
model_summary ==
  /\ mnist_pc = "building"
  /\ Len(layers) = Len(NotebookLayers)
  /\ total_params' = SumParams(layers)
  /\ mnist_pc' = "fitting"
  /\ UNCHANGED <<layers, epoch, batch_start, batch_end,
                 updates_in_epoch, update_source, presented, evaluations, eval_source>>
  /\ UNCHANGED <<hyperVars, tableVars, trainVars, valVars, fitVars>>

\* model.fit, one weight update: the next batch_size positions of the
\* epoch's shuffled index array (fewer when the array ends), taken from x.
fit_batch ==
  /\ mnist_pc = "fitting"
  /\ epoch < FitArguments.epochs
  /\ batch_end < Samples(FitArguments.x)
  /\ batch_start' = batch_end
  /\ batch_end' = Min(batch_end + FitArguments.batch_size, Samples(FitArguments.x))
  /\ updates_in_epoch' = updates_in_epoch + 1
  /\ update_source' = FitArguments.x
  /\ presented' = presented + (batch_end' - batch_start')
  /\ UNCHANGED <<mnist_pc, layers, total_params, epoch, evaluations, eval_source>>
  /\ UNCHANGED <<hyperVars, tableVars, trainVars, valVars, fitVars>>

\* model.fit, the end of an epoch: validation_data is evaluated, then the
\* next epoch starts with a new shuffle, or fit returns.
fit_validate ==
  /\ mnist_pc = "fitting"
  /\ epoch < FitArguments.epochs
  /\ batch_end = Samples(FitArguments.x)
  /\ evaluations' = evaluations + 1
  /\ eval_source' = FitArguments.validation_data
  /\ epoch' = epoch + 1
  /\ batch_start' = 0
  /\ batch_end' = 0
  /\ updates_in_epoch' = 0
  /\ mnist_pc' = IF epoch + 1 >= FitArguments.epochs THEN "fitted" ELSE "fitting"
  /\ UNCHANGED <<layers, total_params, update_source, presented>>
  /\ UNCHANGED <<hyperVars, tableVars, trainVars, valVars, fitVars>>

\* score = model.evaluate(x_test, y_test, verbose=0)
model_evaluate ==
  /\ mnist_pc = "fitted"
  /\ evaluations' = evaluations + 1
  /\ eval_source' = "x_test"
  /\ mnist_pc' = "scored"
  /\ UNCHANGED <<layers, total_params, epoch, batch_start, batch_end,
                 updates_in_epoch, update_source, presented>>
  /\ UNCHANGED <<hyperVars, tableVars, trainVars, valVars, fitVars>>

InitMnist ==
  /\ InitHyper({NotebookBatchSize}, {NotebookLearningRate}, {NotebookNumEpochs})
  /\ InitTables({<< >>}, {<< >>}, {{}})
  /\ InitGenerators({0})
  /\ InitFitCell
  /\ mnist_pc = "building"
  /\ layers = << >>
  /\ total_params = 0
  /\ epoch = 0
  /\ batch_start = 0
  /\ batch_end = 0
  /\ updates_in_epoch = 0
  /\ update_source = "none"
  /\ presented = 0
  /\ evaluations = 0
  /\ eval_source = "none"

NextMnist ==
  \/ model_add
  \/ model_summary
  \/ fit_batch
  \/ fit_validate
  \/ model_evaluate

SpecMnist == InitMnist /\ [][NextMnist]_vars

\* ================================================================ claims
\* What a generator has handed to load_batch in its current step, and the
\* batch it then yielded.
Loaded(pc) == pc \in {"yielded", "raised"}

FullOrFinal(pc, i, num_of_steps, yield) ==
  pc = "yielded" =>
    Len(yield.batch_images) = BATCH_SIZE \/ i = num_of_steps - 1

\* The pass has no step that starts beyond the end of the file array.
StepsWithinFiles(files, num_of_steps) == (num_of_steps - 1) * BATCH_SIZE <= Len(files)

\* C1 as stated: for any number of files and any num_of_steps, every batch
\* yielded by train_generator and val_generator holds exactly BATCH_SIZE
\* files, except that the final batch of the pass (i = num_of_steps - 1) may
\* be smaller.
C1_BatchFullExceptFinal_AnySteps ==
  /\ FullOrFinal(train_pc, train_i, train_steps, train_yield)
  /\ FullOrFinal(val_pc, val_i, val_steps, val_yield)

\* C1 amended: when (num_of_steps - 1) * BATCH_SIZE is at most the number of
\* files, every yielded batch holds exactly BATCH_SIZE files, except that the
\* final batch of the pass may be smaller.
C1_BatchFullExceptFinal ==
  /\ StepsWithinFiles(training_files, train_steps) =>
       FullOrFinal(train_pc, train_i, train_steps, train_yield)
  /\ StepsWithinFiles(validation_files, val_steps) =>
       FullOrFinal(val_pc, val_i, val_steps, val_yield)

\* A pass whose final batch is partial, after a full one.
C1_Witness ==
  /\ train_pc = "yielded"
  /\ StepsWithinFiles(training_files, train_steps)
  /\ train_i = train_steps - 1
  /\ train_i >= 1
  /\ Len(train_yield.batch_images) \in 1..(BATCH_SIZE - 1)

AllKeys(files, pc, i) ==
  Loaded(pc) => \A f \in Range(BatchOfFiles(files, i)) : f \in DOMAIN labels

\* C2: every filename train_generator or val_generator passes to load_batch
\* is a key of labels, so labels[filename] never raises KeyError.
C2_SampledFilesAreKeys ==
  /\ AllKeys(training_files, train_pc, train_i)
  /\ AllKeys(validation_files, val_pc, val_i)
  /\ train_error.status # "KeyError"
  /\ val_error.status # "KeyError"

\* Both generators have yielded a batch with files in it, the training one
\* from an array that is no longer in its first order.
C2_Witness ==
  /\ train_pc = "yielded" /\ Len(train_yield.batch_labels) >= 1
  /\ training_files # KeyList(DOMAIN training_labels)
  /\ val_pc = "yielded" /\ Len(val_yield.batch_labels) >= 1

\* C3: once the training run has completed an epoch, a checkpoint file
\* made from weights_file has been written.
C3_CheckpointWritten ==
  fit_epoch >= 1 => checkpoints # {}

\* The number a '{:.3f}' field reads as, in units of 1/10000.
Read3f(thousandths) == thousandths * 10

\* C4: the lr_ and bz_ fields of weights_file equal the configured
\* LEARNING_RATE and BATCH_SIZE, whatever values are configured.
C4_TemplateEncodesHyperparameters ==
  weights_file.status = "template" =>
    /\ Read3f(weights_file.lr) = LEARNING_RATE
    /\ weights_file.bz = BATCH_SIZE

\* C5: the label table is what the loading cell built from the two pickles,
\* and no step of either generator changes its keys or its label vectors.
C5_LabelTableUnchanged ==
  /\ [](labels = MergeLabels(training_labels, validation_labels))
  /\ [][labels' = labels]_vars

\* Both generators are past a yield, the training one in a later step.
C5_Witness ==
  /\ train_pc = "yielded" /\ train_i >= 1 /\ Len(train_yield.batch_labels) >= 1
  /\ val_pc = "yielded" /\ Len(val_yield.batch_labels) >= 1

InOrder(files, pc, i, yield) ==
  pc = "yielded" =>
    LET b == BatchOfFiles(files, i)
    IN /\ Len(yield.batch_images) = Len(b)
       /\ Len(yield.batch_labels) = Len(b)
       /\ \A k \in 1..Len(b) :
            /\ yield.batch_labels[k] = labels[b[k]]
            /\ yield.batch_images[k].file = b[k]
            /\ yield.batch_images[k].channels = 3
            /\ yield.batch_images[k].width = IMAGE_SIZE
            /\ yield.batch_images[k].height = IMAGE_SIZE

\* C6: load_batch returns as many images and labels as batch_of_files has
\* files, in the same order: the k-th label is labels[batch_of_files[k]], the
\* k-th image is decoded from batch_of_files[k], with 3 channels and
\* IMAGE_SIZE x IMAGE_SIZE, mirrored or not.
C6_BatchInOrder ==
  /\ InOrder(training_files, train_pc, train_i, train_yield)
  /\ InOrder(validation_files, val_pc, val_i, val_yield)

\* A batch of two files with different labels, one mirrored and one not.
C6_Witness ==
  /\ train_pc = "yielded"
  /\ Len(train_yield.batch_labels) >= 2
  /\ train_yield.batch_labels[1] # train_yield.batch_labels[2]
  /\ train_yield.batch_images[1].mirrored
  /\ ~train_yield.batch_images[2].mirrored

FirstFailing(b) == b[CHOOSE j \in Failing(b) : \A m \in Failing(b) : j <= m]

FailureEnds(files, pc, i, yield, error) ==
  /\ Loaded(pc) /\ Failing(BatchOfFiles(files, i)) # {} =>
       /\ pc = "raised"
       /\ yield = NoBatch
       /\ error.status \in {"FileNotFoundError", "KeyError"}
       /\ error.file = FirstFailing(BatchOfFiles(files, i))
  /\ pc = "raised" => yield = NoBatch /\ Failing(BatchOfFiles(files, i)) # {}

\* C7: when opening an image or looking up a label fails for a file of the
\* batch, the exception leaves load_batch and the generator: nothing is
\* yielded for that step, the file is neither skipped nor tried again, and
\* the generator, once ended, stays ended and yields nothing more.
C7_FailurePropagates ==
  /\ [](/\ FailureEnds(training_files, train_pc, train_i, train_yield, train_error)
        /\ FailureEnds(validation_files, val_pc, val_i, val_yield, val_error))
  /\ [][/\ train_pc = "raised" => UNCHANGED trainVars
        /\ val_pc = "raised" => UNCHANGED valVars]_vars

\* The training generator ended by a missing file in its second step, after
\* it had yielded its first batch.
C7_Witness ==
  /\ train_pc = "raised"
  /\ train_error.status = "FileNotFoundError"
  /\ train_i = 1

\* C8: the test images are only evaluated, once after each epoch and once in
\* the final scoring step; every weight update of model.fit is computed from
\* samples of x_train.
C8_TestImagesOnlyEvaluated ==
  /\ update_source \in {"none", "x_train"}
  /\ eval_source \in {"none", "x_test"}
  /\ evaluations = epoch + (IF mnist_pc = "scored" THEN 1 ELSE 0)
  /\ (updates_in_epoch >= 1 \/ epoch >= 1) => update_source = "x_train"
  /\ epoch >= 1 => eval_source = "x_test"

\* The notebook has trained and scored the model.
C8_Witness ==
  /\ mnist_pc = "scored"
  /\ update_source = "x_train"
  /\ eval_source = "x_test"
  /\ evaluations = epochs + 1

\* C9: model.fit runs exactly epochs (20) epochs; in each, the batches are
\* consecutive slices of the shuffled index array of the 60000 training
\* images, batch_size (128) long except the final one, and cover it once; so
\* each image is presented once per epoch and 20 times in all.
C9_EveryEpochCoversTrainingSet ==
  /\ epoch <= epochs
  /\ mnist_pc \in {"fitted", "scored"} =>
       epoch = epochs /\ presented = epochs * Samples("x_train")
  /\ mnist_pc = "fitting" =>
       /\ epoch < epochs
       /\ presented = epoch * Samples("x_train") + batch_end
       /\ updates_in_epoch >= 1 =>
            /\ batch_start = (updates_in_epoch - 1) * batch_size
            /\ batch_end - batch_start = batch_size \/ batch_end = Samples("x_train")
            /\ batch_end - batch_start \in 1..batch_size
            /\ update_source = "x_train"

\* The final, partial batch of the last epoch.
C9_Witness ==
  /\ mnist_pc = "fitting"
  /\ epoch = epochs - 1
  /\ batch_end = Samples("x_train")
  /\ batch_end - batch_start \in 1..(batch_size - 1)

\* C10: the model has 669,706 parameters, the sum of 401,920 (hidden layer
\* 1), 262,656 (hidden layer 2) and 5,130 (output layer), each inputs times
\* neurons plus neurons; the Dropout layers add none.
C10_ParameterCount ==
  mnist_pc # "building" =>
    /\ total_params = 669706
    /\ ParamCount(layers[1]) = 401920
    /\ ParamCount(layers[3]) = 262656
    /\ ParamCount(layers[5]) = 5130
    /\ ParamCount(layers[2]) = 0 /\ ParamCount(layers[4]) = 0
    /\ total_params = 401920 + 262656 + 5130
    /\ <<layers[1].inputs, layers[1].units>> = <<784, 512>>
    /\ <<layers[3].inputs, layers[3].units>> = <<512, 512>>
    /\ <<layers[5].inputs, layers[5].units>> = <<512, 10>>

\* model.summary() has run on the five layers.
C10_Witness ==
  /\ mnist_pc = "fitting"
  /\ Len(layers) = 5
  /\ total_params > 0

\* C11: mirroring is a training-only augmentation: load_batch mirrors no
\* image when is_training is false, and every image of a batch yielded by
\* val_generator is unmirrored.
C11_ValidationUnmirrored ==
  /\ \A f \in AllFiles : \A coin \in {0, 1} : ~LoadImage(f, FALSE, coin).mirrored
  /\ val_pc = "yielded" =>
       \A k \in 1..Len(val_yield.batch_images) : ~val_yield.batch_images[k].mirrored

\* The files a pass has yielded so far, and how many times it yielded f.
PassFiles == UNION {Range(train_pass[j]) : j \in 1..Len(train_pass)}

TimesYielded(f) ==
  Cardinality({<<j, k>> \in (1..Len(train_pass)) \X (1..BATCH_SIZE) :
                 k <= Len(train_pass[j]) /\ train_pass[j][k] = f})

\* train_generator is at the yield of the last step of a pass.
PassComplete == train_pc = "yielded" /\ train_i = train_steps - 1

\* C12: within one pass of train_generator no file is in more than one batch
\* (nor twice in one); and when num_of_steps = N div BATCH_SIZE for N files, a
\* complete pass has yielded N - (N mod BATCH_SIZE) distinct files, once each,
\* and left N mod BATCH_SIZE files unused.
C12_PassYieldsEachFileOnce ==
  /\ \A f \in Range(training_files) : TimesYielded(f) <= 1
  /\ PassFiles \subseteq Range(training_files)
  /\ train_pc = "yielded" => Len(train_pass) = train_i + 1
  /\ PassComplete /\ train_steps = Len(training_files) \div BATCH_SIZE =>
       /\ Len(train_pass) = train_steps
       /\ Cardinality(PassFiles) = Len(training_files) - (Len(training_files) % BATCH_SIZE)
       /\ Cardinality(Range(training_files) \ PassFiles) = Len(training_files) % BATCH_SIZE

\* A complete pass with num_of_steps = N div BATCH_SIZE that yielded files
\* and left one unused.
C12_Witness ==
  /\ PassComplete
  /\ train_steps = Len(training_files) \div BATCH_SIZE
  /\ Cardinality(PassFiles) >= 2
  /\ Cardinality(Range(training_files) \ PassFiles) = 1

====
